---- MODULE Spec2Model ----
(***************************************************************************)
(* Template code generation with the simulator as intermediate            *)
(* representation: the build pipeline of MakoUtilMix (render, print,       *)
(* compile, entry-point lookup), the coupling and drift kernels the tests  *)
(* generate and the references they are compared with, the time-stepping   *)
(* paths, the trajectory check, parameters fixed at build time, the        *)
(* workers of one kernel invocation, what a call changes in the caller's   *)
(* buffers, and the cosimulation monitors.                                 *)
(*                                                                         *)
(* Numbers are exact: integers for weights and coupling inputs, fractions  *)
(* in lowest terms for parameters, states and drifts.  Where a tolerance   *)
(* is stated it is counted in units of 1e-5.  Time is counted in steps.    *)
(***************************************************************************)
EXTENDS Integers, Sequences, FiniteSets, TLC

VARIABLES
    \* ---- one build call (MakoUtilMix._build_py_func / _build_cu_func)
    bpc,        \* position of the build call
    backend,    \* "py" (exec) or "cu" (SourceModule)
    tmpl,       \* the template: a sequence of template lines
    content,    \* the content mapping: symbol -> text
    ename,      \* the requested entry-point name
    psrc,       \* print_source
    source,     \* the rendered source: a sequence of lines
    printed,    \* what was printed, in order
    bound,      \* names bound by the compilation so far
    outcome,    \* how the call ended
    stages      \* the stages the call went through, in order

VARIABLES
    \* ---- one coupling test (TestCoupling, TestMako.test_sigmoidal_cfun,
    \*      and the weight buffer the TestSimODE tests hand over)
    cpc,        \* "idle" or "done"
    ccall,      \* which test made the call
    cfun,       \* the coupling descriptor
    cW,         \* the stored weights (conn.weights, or the test's weights)
    cX,         \* the state handed to the kernel
    wbuf,       \* the weight buffer handed to the kernel
    cgOut,      \* what the generated code in the test returned
    cexp        \* the value the test expects of the kernel

VARIABLES
    \* ---- one call of TestSimODE._check_match(expected, actual)
    kpc,        \* position of the call, then "accepted" or "rejected"
    kexp,       \* expected[t, :, :, 0] per step t
    kact,       \* actual[t] per step t
    kt          \* the loop variable t

VARIABLES
    \* ---- one drift test: the same model, state and coupling under each kernel
    dpc,        \* which kernel runs next
    dP,         \* the model's parameters
    dnsp,       \* n_spatial
    dstate,     \* state: a row per state variable
    dcoup,      \* coupling: a row per coupling term
    dcubuf,     \* the parmat buffer handed to the GPU kernel
    dref,       \* model.dfun(state, coupling)
    dflow,      \* drift of the inline kernel of test_mpr_dfun
    dnp,        \* drift of the array kernel
    dloop,      \* drift of the loop kernel, per node
    dloopi,     \* the loop kernel's node index
    dcu         \* drift of the GPU kernel, per thread

VARIABLES
    \* ---- one simulation of _create_sim under both time-stepping paths
    tpc,        \* "idle", "nodelay" while the generated kernel steps, "done"
    tP,         \* the parameters of sim.model
    tW,         \* conn.weights
    tD,         \* conn.idelays
    tX0,        \* the initial state
    tnd,        \* the trajectory of the no-delay path
    tdl,        \* the trajectory of the delay-aware path (y of sim.run())
    thist,      \* the ring buffer of past states
    tcur        \* the step whose state is current

VARIABLES
    \* ---- one model, the kernel built from it, and the calls of the kernel
    fmodel,     \* the model's parameters as they are now
    fkernel,    \* the parameter values written into the built source
    flast,      \* the last operation: build, set or call
    fstate,     \* state of the last call
    fcoup,      \* coupling of the last call
    fout,       \* what the last call returned
    fops          \* operations so far

VARIABLES
    \* ---- one invocation of the network kernel, one worker per node
    ppc,        \* "idle", "run" or "done"
    pW,         \* the weight buffer
    pX0,        \* the state the kernel was called with
    pX,         \* the state buffer the workers share
    wt,         \* per worker: the step it is in
    wph,        \* per worker: "read" (coupling not yet read) or "write"
    pseen,      \* per worker: the state it read for its coupling
    pyh         \* the trajectory buffer: per step, per node

VARIABLES
    \* ---- one call and the buffers the caller hands over
    gpc,        \* "idle", "flow" / "device" while the call runs, "returned"
    gkind,      \* which call it was
    gbuf,       \* the caller's arrays, by name
    gbefore,    \* the caller's arrays as they were at the call
    gdev,       \* the device copies during a launch
    gheld       \* the buffers the callee has a reference to

VARIABLES
    \* ---- one call monitor.sample(start_step, n_steps, cosim_history, history)
    mpc,        \* "idle", "loop" or "done"
    mclass,     \* the class of the monitor
    mistep,     \* the monitor's period in steps
    mstart,     \* start_step
    mn,         \* n_steps
    mch,        \* cosim_history
    mh,         \* history
    mstep,      \* the loop variable step
    mtimes,     \* times
    mvalues,    \* values
    mlog,       \* per pass of the loop: what was read, what was passed on
    mout        \* how the call ended

buildVars == <<bpc, backend, tmpl, content, ename, psrc, source, printed, bound, outcome, stages>>
cplVars   == <<cpc, ccall, cfun, cW, cX, wbuf, cgOut, cexp>>

chkVars   == <<kpc, kexp, kact, kt>>

dfVars    == <<dpc, dP, dnsp, dstate, dcoup, dcubuf, dref, dflow, dnp, dloop, dloopi, dcu>>

trajVars  == <<tpc, tP, tW, tD, tX0, tnd, tdl, thist, tcur>>

coreVars  == <<buildVars, cplVars, chkVars, dfVars, trajVars>>

frzVars   == <<fmodel, fkernel, flast, fstate, fcoup, fout, fops>>

parVars   == <<ppc, pW, pX0, pX, wt, wph, pseen, pyh>>

frmVars   == <<gpc, gkind, gbuf, gbefore, gdev, gheld>>

monVars   == <<mpc, mclass, mistep, mstart, mn, mch, mh, mstep, mtimes, mvalues, mlog, mout>>

extVars   == <<frzVars, parVars, frmVars, monVars>>

frzRest   == <<parVars, frmVars, monVars>>

parRest   == <<frzVars, frmVars, monVars>>

frmRest   == <<frzVars, parVars, monVars>>

monRest   == <<frzVars, parVars, frmVars>>

vars == <<coreVars, extVars>>

(***************************************************************************)
(* Bounds                                                                  *)
(***************************************************************************)
MaxLines == 2
NNode == 2
MaxT == 3
TrajSteps == 2
MaxOps == 4
MaxSteps == 2
MaxDepth == 3

\* 1.0 in units of 1e-5 (the tolerances are multiples of 1e-5)
Scale == 100000

\* The values of flow are counted in units of 1/3000: dt * 1.01 / 3 is
\* 101 of them.
Unit == 3000

\* state = np.random.rand(2, 128): two state variables
NSvar == 2

(***************************************************************************)
(* Templates, content, source text                                         *)
(***************************************************************************)
\* Lines of generated source, by what the compiler does with them.
LDefKernel == "define kernel"
LDefFlow   == "define flow"
LStmt      == "statement"
LSyntax    == "malformed"
LUndecl    == "undeclared name"
LExit      == "raise SystemExit"

SourceLines == {LDefKernel, LDefFlow, LStmt, LSyntax, LUndecl, LExit}

Symbols == {"drift", "body"}

\* A template line is literal text, or one ${symbol} expression.
TextItem(l) == <<"text", l>>
ExprItem(s) == <<"expr", s>>

TemplateItems == {TextItem(l) : l \in {LDefKernel, LSyntax, LUndecl, LExit}}
                 \cup {ExprItem(s) : s \in Symbols}

Templates == UNION {[1..n -> TemplateItems] : n \in 1..MaxLines}

ContentValues == {LDefFlow, LStmt}

Contents == UNION {[D -> ContentValues] : D \in SUBSET Symbols}

EntryNames == {"kernel", "flow"}

Backends == {"py", "cu"}

NoOutcome == [tag |-> "none"]

\* The symbols a template references that the content mapping lacks.
Undefined(t, c) ==
    {i \in 1..Len(t) : t[i][1] = "expr" /\ t[i][2] \notin DOMAIN c}

\* The names the NameError of a strict render can carry: the preamble of the
\* compiled template looks every referenced name up in the context, in no
\* fixed order, and raises for the first one it misses.
UndefinedSymbols(t, c) == {t[i][2] : i \in Undefined(t, c)}

\* Template(source, strict_undefined=True).render(**content): every
\* ${symbol} is replaced by the text the content binds it to.
RenderOk(t, c) ==
    [i \in 1..Len(t) |-> IF t[i][1] = "expr" THEN c[t[i][2]] ELSE t[i][2]]

\* A lenient renderer: an undefined symbol renders as empty text.
RenderLenient(t, c) ==
    [ok   |-> TRUE,
     text |-> [i \in 1..Len(t) |->
                 IF t[i][1] = "expr"
                 THEN (IF t[i][2] \in DOMAIN c THEN c[t[i][2]] ELSE "")
                 ELSE t[i][2]]]

\* strict_undefined=True: an undefined symbol raises NameError from render,
\* and no text is returned.
RenderStrict(t, c) ==
    IF Undefined(t, c) = {}
    THEN [ok |-> TRUE, text |-> RenderOk(t, c)]
    ELSE [ok |-> FALSE, text |-> <<>>]

RenderTemplate(t, c) == RenderStrict(t, c)

\* _insert_line_numbers: the lines of the source, each with its number
\* (from 1) before it.
InsertLineNumbers(src) == [i \in 1..Len(src) |-> <<i, src[i]>>]

PrintNumbered(src) == [what |-> "numbered", body |-> InsertLineNumbers(src)]
PrintRaw(src)      == [what |-> "raw", body |-> src]
\* print(text_error_template().render()): the report of the error being
\* handled, which carries the name the NameError was raised for.
PrintReport(sym)   == [what |-> "error_template", body |-> sym]

Defines(l) == IF l = LDefKernel THEN {"kernel"}
              ELSE IF l = LDefFlow THEN {"flow"} ELSE {}

DefinedUpTo(src, n) == UNION {Defines(src[i]) : i \in 1..n}

FirstFault(src, faults) ==
    CHOOSE i \in 1..Len(src) :
        /\ src[i] \in faults
        /\ \A j \in 1..(i-1) : src[j] \notin faults

\* What a line raises when it runs.
RaisedBy(l) == IF l = LUndecl THEN "NameError" ELSE "SystemExit"

\* exec(source, globals_): the whole source is compiled first (a malformed
\* line anywhere is a SyntaxError and nothing runs), then the statements run
\* in order, binding names, until one raises.
PyExecChecked(src) ==
    IF \E i \in 1..Len(src) : src[i] = LSyntax
    THEN [ok |-> FALSE, kind |-> "SyntaxError", names |-> {}]
    ELSE IF \E i \in 1..Len(src) : src[i] \in {LUndecl, LExit}
    THEN [ok |-> FALSE,
          kind |-> RaisedBy(src[FirstFault(src, {LUndecl, LExit})]),
          names |-> DefinedUpTo(src, FirstFault(src, {LUndecl, LExit}) - 1)]
    ELSE [ok |-> TRUE, kind |-> "", names |-> DefinedUpTo(src, Len(src))]

\* An exec whose except clause lets the failure pass.
PyExecSwallowing(src) ==
    IF \E i \in 1..Len(src) : src[i] = LSyntax
    THEN [ok |-> TRUE, kind |-> "", names |-> {}]
    ELSE IF \E i \in 1..Len(src) : src[i] \in {LUndecl, LExit}
    THEN [ok |-> TRUE, kind |-> "",
          names |-> DefinedUpTo(src, FirstFault(src, {LUndecl, LExit}) - 1)]
    ELSE [ok |-> TRUE, kind |-> "", names |-> DefinedUpTo(src, Len(src))]

\* except Exception: these are BaseExceptions that are no Exception, and
\* pass the clause by.
NotExceptions == {"SystemExit", "KeyboardInterrupt", "GeneratorExit"}
IsException(kind) == kind \notin NotExceptions

PyExec(src) == PyExecChecked(src)

\* SourceModule(source): the device compiler rejects the source whole.
CuCompile(src) ==
    IF \E i \in 1..Len(src) : src[i] \in {LSyntax, LUndecl, LExit}
    THEN [ok |-> FALSE, kind |-> "CompileError", names |-> {}]
    ELSE [ok |-> TRUE, kind |-> "", names |-> DefinedUpTo(src, Len(src))]

\* What each builder prints before compiling, and when compiling fails.
PyPrintBefore(ps, src) == IF ps THEN <<PrintNumbered(src)>> ELSE <<>>
PyPrintOnFailAlways(ps, src) == <<PrintNumbered(src)>>
PyPrintOnFail(ps, src) == IF ~ps THEN <<PrintNumbered(src)>> ELSE <<>>
CuPrintBefore(ps, src) == IF ps THEN <<PrintRaw(src)>> ELSE <<>>
CuPrintOnFailAsHost(ps, src) == IF ~ps THEN <<PrintNumbered(src)>> ELSE <<>>
CuPrintOnFail(ps, src) == <<PrintNumbered(src)>>

Raised(kind, stage) == [tag |-> "raise", kind |-> kind, stage |-> stage]
Returned(fn)        == [tag |-> "return", fn |-> fn]

\* The callable a build hands back: the named entry point of one compilation.
Callable(b, n, src) == [backend |-> b, name |-> n, src |-> src]

\* globals_[name]: KeyError when the source did not bind the name.
PyLookup(names, n, src) ==
    IF n \in names THEN Returned(Callable("py", n, src))
    ELSE Raised("KeyError", "lookup")

\* module.get_function(name): LogicError when the module has no such kernel.
CuLookup(names, n, src) ==
    IF n \in names THEN Returned(Callable("cu", n, src))
    ELSE Raised("LogicError", "lookup")

(***************************************************************************)
(* The build call, step by step                                            *)
(***************************************************************************)
BuildInit ==
    /\ bpc = "idle"
    /\ backend = "py"
    /\ tmpl = <<TextItem(LDefKernel)>>
    /\ content = <<>>
    /\ ename = "kernel"
    /\ psrc = FALSE
    /\ source = <<>>
    /\ printed = <<>>
    /\ bound = {}
    /\ outcome = NoOutcome
    /\ stages = <<>>

\* A caller starts _build_py_func or _build_cu_func.
BuildCall ==
    /\ bpc = "idle"
    /\ \E b \in Backends, t \in Templates, c \in Contents,
          n \in EntryNames, ps \in BOOLEAN :
          /\ backend' = b
          /\ tmpl' = t
          /\ content' = c
          /\ ename' = n
          /\ psrc' = ps
    /\ bpc' = "render"
    /\ UNCHANGED <<source, printed, bound, outcome, stages>>
    /\ UNCHANGED <<cplVars, chkVars, dfVars, trajVars, extVars>>

\* _render_template: render, or print the error report and re-raise.
Render ==
    /\ bpc = "render"
    /\ LET r == RenderTemplate(tmpl, content) IN
         IF r.ok
         THEN /\ source' = r.text
              /\ bpc' = "print"
              /\ UNCHANGED <<printed, outcome>>
         ELSE /\ \E sym \in UndefinedSymbols(tmpl, content) :
                    printed' = Append(printed, PrintReport(sym))
              /\ outcome' = Raised("NameError", "render")
              /\ bpc' = "done"
              /\ UNCHANGED source
    /\ stages' = Append(stages, "render")
    /\ UNCHANGED <<backend, tmpl, content, ename, psrc, bound>>
    /\ UNCHANGED <<cplVars, chkVars, dfVars, trajVars, extVars>>

\* if print_source: print(...)
PrintSource ==
    /\ bpc = "print"
    /\ printed' = printed \o (IF backend = "py"
                              THEN PyPrintBefore(psrc, source)
                              ELSE CuPrintBefore(psrc, source))
    /\ bpc' = "compile"
    /\ stages' = Append(stages, "print")
    /\ UNCHANGED <<backend, tmpl, content, ename, psrc, source, bound, outcome>>
    /\ UNCHANGED <<cplVars, chkVars, dfVars, trajVars, extVars>>

\* exec(source, globals_) with its except Exception clause.
CompilePy ==
    /\ bpc = "compile"
    /\ backend = "py"
    /\ LET r == PyExec(source) IN
         /\ bound' = r.names
         /\ IF r.ok
            THEN /\ bpc' = "lookup"
                 /\ UNCHANGED <<printed, outcome>>
            ELSE /\ printed' = printed \o (IF IsException(r.kind)
                                            THEN PyPrintOnFail(psrc, source)
                                            ELSE <<>>)
                 /\ outcome' = Raised(r.kind, "compile")
                 /\ bpc' = "done"
    /\ stages' = Append(stages, "compile")
    /\ UNCHANGED <<backend, tmpl, content, ename, psrc, source>>
    /\ UNCHANGED <<cplVars, chkVars, dfVars, trajVars, extVars>>

\* SourceModule(source) with its except CompileError clause.
CompileCu ==
    /\ bpc = "compile"
    /\ backend = "cu"
    /\ LET r == CuCompile(source) IN
         /\ bound' = r.names
         /\ IF r.ok
            THEN /\ bpc' = "lookup"
                 /\ UNCHANGED <<printed, outcome>>
            ELSE /\ printed' = printed \o CuPrintOnFail(psrc, source)
                 /\ outcome' = Raised(r.kind, "compile")
                 /\ bpc' = "done"
    /\ stages' = Append(stages, "compile")
    /\ UNCHANGED <<backend, tmpl, content, ename, psrc, source>>
    /\ UNCHANGED <<cplVars, chkVars, dfVars, trajVars, extVars>>

\* return globals_[name]  /  return module.get_function(name)
Lookup ==
    /\ bpc = "lookup"
    /\ outcome' = IF backend = "py"
                  THEN PyLookup(bound, ename, source)
                  ELSE CuLookup(bound, ename, source)
    /\ bpc' = "done"
    /\ stages' = Append(stages, "lookup")
    /\ UNCHANGED <<backend, tmpl, content, ename, psrc, source, printed, bound>>
    /\ UNCHANGED <<cplVars, chkVars, dfVars, trajVars, extVars>>

BuildNext ==
    \/ BuildCall
    \/ Render
    \/ PrintSource
    \/ CompilePy
    \/ CompileCu
    \/ Lookup

(***************************************************************************)
(* Coupling: the code the tests generate, and the reference they expect    *)
(***************************************************************************)
Nodes == 1..NNode
Svars == 1..NSvar

WVals == {0, 1}
XVals == {1, 2}

Matrices == [Nodes -> [Nodes -> WVals]]
States   == [Svars -> [Nodes -> XVals]]
Vectors  == [Nodes -> XVals]

\* A coupling descriptor: pre_expr over x_i and x_j, post_expr over gx, and
\* the scalar parameters a and b.
CfLinear     == [pre |-> "x_j", post |-> "a * gx + b", a |-> 2, b |-> 1]
CfDifference == [pre |-> "x_j - x_i", post |-> "a * gx", a |-> 3, b |-> 0]
CfPlain      == [pre |-> "x_j", post |-> "gx", a |-> 1, b |-> 0]

Cfuns == {CfLinear, CfDifference, CfPlain}

\* cfun.pre(x_i, x_j): the first argument is x_i, the second x_j.
Pre(cf, x_i, x_j) == IF cf.pre = "x_j" THEN x_j ELSE x_j - x_i

\* cfun.post(gx)
Post(cf, gx) == IF cf.post = "a * gx + b" THEN cf.a * gx + cf.b
                ELSE IF cf.post = "a * gx" THEN cf.a * gx
                ELSE gx

RECURSIVE SumTo(_, _)
SumTo(f, n) == IF n = 0 THEN 0 ELSE SumTo(f, n - 1) + f[n]

\* weights.T
Transpose(W) == [a \in Nodes |-> [b \in Nodes |-> W[b][a]]]

\* NumPy broadcasting: an axis of length 1 is read at its only index.
BIdx(len, k) == IF len = 1 THEN 1 ELSE k

\* ---- TestMako.test_sigmoidal_cfun
\* The generated pre_post(X): for i: gx = 0; x_i = X[i];
\*   for j: x_j = X[j]; gx += pre_expr;  gX[i] = post_expr
RECURSIVE CgInner(_, _, _, _)
CgInner(cf, X, i, j) ==
    IF j = 0 THEN 0
    ELSE CgInner(cf, X, i, j - 1) + Pre(cf, X[i], X[j])

CgInnerSwapped(cf, X, i) == SumTo([j \in Nodes |-> Pre(cf, X[j], X[i])], NNode)
CgRow(cf, X, i) == CgInner(cf, X, i, NNode)

CgPrePost(cf, X) == [i \in Nodes |-> Post(cf, CgRow(cf, X, i))]

\* The test's own pre_post(X):
\*   x_i, x_j = X, X.reshape((-1, 1)) + 0*X
\*   gx = cfun.pre(x_i, x_j).sum(axis=0);  return cfun.post(gx)
RefXj(X) == [a \in Nodes |-> [b \in Nodes |-> X[a] + 0 * X[b]]]

RefPre(cf, X) ==
    [a \in Nodes |-> [b \in Nodes |-> Pre(cf, X[b], RefXj(X)[a][b])]]

RefPrePost(cf, X) ==
    [b \in Nodes |->
        Post(cf, SumTo([a \in Nodes |-> RefPre(cf, X)[a][b]], NNode))]

\* ---- TestCoupling._eval_cfun_no_delay(cfun, weights, X)
\*   x_i, x_j = X.reshape((nsvar, 1, nnode)), X.reshape((nsvar, nnode, 1))
\*   gx = (weights * cfun.pre(x_i+x_j*0, x_j+x_i*0)).sum(axis=1)
\*   return cfun.post(gx)
ReshapeI(X) == [s \in Svars |-> [a \in {1} |-> [b \in Nodes |-> X[s][b]]]]
ReshapeJ(X) == [s \in Svars |-> [a \in Nodes |-> [b \in {1} |-> X[s][a]]]]

\* x_i + x_j*0 and x_j + x_i*0, both of shape (nsvar, nnode, nnode)
BcastI(X) ==
    [s \in Svars |-> [a \in Nodes |-> [b \in Nodes |->
        ReshapeI(X)[s][BIdx(1, a)][b] + ReshapeJ(X)[s][a][BIdx(1, b)] * 0]]]
BcastJ(X) ==
    [s \in Svars |-> [a \in Nodes |-> [b \in Nodes |->
        ReshapeJ(X)[s][a][BIdx(1, b)] + ReshapeI(X)[s][BIdx(1, a)][b] * 0]]]

Weighted(cf, W, X) ==
    [s \in Svars |-> [a \in Nodes |-> [b \in Nodes |->
        W[a][b] * Pre(cf, BcastI(X)[s][a][b], BcastJ(X)[s][a][b])]]]

\* .sum(axis=1)
SumAxis1(P) ==
    [s \in Svars |-> [b \in Nodes |-> SumTo([a \in Nodes |-> P[s][a][b]], NNode)]]

EvalCfunNoDelay(cf, W, X) ==
    [s \in Svars |-> [b \in Nodes |->
        Post(cf, SumAxis1(Weighted(cf, W, X))[s][b])]]

\* ---- the weight buffer each test hands to its kernel
\* _test_py_cfun: kernel(cX, weights.T, state)
PyCfunWeights(W) == Transpose(W)
\* _test_cu_cfun: kernel(In(state), In(weights), Out(cX))
CuCfunWeights(W) == W
\* test_mpr_cu1: weights = sim.connectivity.weights.T.copy().astype('f')
MprCu1WeightsStored(W) == W
MprCu1Weights(W) == Transpose(W)
\* test_mpr_cu2: weights = sim.connectivity.weights.T.copy().astype('f')
MprCu2Weights(W) == Transpose(W)
\* test_np_mpr: weights = sim.connectivity.weights.copy()
NpMprWeights(W) == W

CouplingCalls == {"py_cfun_np", "py_cfun_nb", "cu_cfun"}
SimCalls      == {"mpr_cu1", "mpr_cu2", "np_mpr"}

NoValue == <<>>

CplInit ==
    /\ cpc = "idle"
    /\ ccall = "none"
    /\ cfun = CfPlain
    /\ cW = NoValue
    /\ cX = NoValue
    /\ wbuf = NoValue
    /\ cgOut = NoValue
    /\ cexp = NoValue

\* test_sigmoidal_cfun: build pre_post from the inline template, evaluate it
\* and the test's own pre_post on the same X.
TestSigmoidalCfun ==
    /\ cpc = "idle"
    /\ \E cf \in Cfuns, X \in Vectors :
          /\ cfun' = cf
          /\ cX' = X
          /\ cgOut' = CgPrePost(cf, X)
          /\ cexp' = RefPrePost(cf, X)
    /\ ccall' = "sigmoidal_cfun"
    /\ cpc' = "done"
    /\ UNCHANGED <<cW, wbuf>>
    /\ UNCHANGED <<buildVars, chkVars, dfVars, trajVars, extVars>>

\* _test_py_cfun(mode, cfun) for mode np and nb.
TestPyCfun ==
    /\ cpc = "idle"
    /\ \E mode \in {"py_cfun_np", "py_cfun_nb"},
          cf \in Cfuns, W \in Matrices, X \in States :
          /\ ccall' = mode
          /\ cfun' = cf
          /\ cW' = W
          /\ cX' = X
          /\ wbuf' = PyCfunWeights(W)
          /\ cexp' = EvalCfunNoDelay(cf, W, X)
    /\ cpc' = "done"
    /\ UNCHANGED cgOut
    /\ UNCHANGED <<buildVars, chkVars, dfVars, trajVars, extVars>>

\* _test_cu_cfun(cfun)
TestCuCfun ==
    /\ cpc = "idle"
    /\ \E cf \in Cfuns, W \in Matrices, X \in States :
          /\ cfun' = cf
          /\ cW' = W
          /\ cX' = X
          /\ wbuf' = CuCfunWeights(W)
          /\ cexp' = EvalCfunNoDelay(cf, W, X)
    /\ ccall' = "cu_cfun"
    /\ cpc' = "done"
    /\ UNCHANGED cgOut
    /\ UNCHANGED <<buildVars, chkVars, dfVars, trajVars, extVars>>

\* test_mpr_cu1, test_mpr_cu2, test_np_mpr: the weights handed to the
\* full-simulation kernel.
TestMprCu1 ==
    /\ cpc = "idle"
    /\ \E W \in Matrices : cW' = W /\ wbuf' = MprCu1Weights(W)
    /\ ccall' = "mpr_cu1"
    /\ cpc' = "done"
    /\ UNCHANGED <<cfun, cX, cgOut, cexp>>
    /\ UNCHANGED <<buildVars, chkVars, dfVars, trajVars, extVars>>

TestMprCu2 ==
    /\ cpc = "idle"
    /\ \E W \in Matrices : cW' = W /\ wbuf' = MprCu2Weights(W)
    /\ ccall' = "mpr_cu2"
    /\ cpc' = "done"
    /\ UNCHANGED <<cfun, cX, cgOut, cexp>>
    /\ UNCHANGED <<buildVars, chkVars, dfVars, trajVars, extVars>>

TestNpMpr ==
    /\ cpc = "idle"
    /\ \E W \in Matrices : cW' = W /\ wbuf' = NpMprWeights(W)
    /\ ccall' = "np_mpr"
    /\ cpc' = "done"
    /\ UNCHANGED <<cfun, cX, cgOut, cexp>>
    /\ UNCHANGED <<buildVars, chkVars, dfVars, trajVars, extVars>>

CplNext ==
    \/ TestSigmoidalCfun
    \/ TestPyCfun
    \/ TestCuCfun
    \/ TestMprCu1
    \/ TestMprCu2
    \/ TestNpMpr

(***************************************************************************)
(* TestSimODE._check_match(expected, actual)                               *)
(***************************************************************************)
\* Values are counted in units of 1e-5; Scale units make 1.0.
Steps == 0..(MaxT - 1)

Finite(v) == [finite |-> TRUE, v |-> v]
NotANumber == [finite |-> FALSE, v |-> 0]

ExpectedBases == {0, Scale}
\* How an actual value relates to the expected one.
Relations == {"same", "off by 5", "nan"}

Actual(base, rel) ==
    IF rel = "nan" THEN NotANumber
    ELSE IF rel = "off by 5" THEN Finite(base + 5)
    ELSE Finite(base)

Abs(x) == IF x < 0 THEN -x ELSE x

\* np.isfinite(actual).all()
AllFinite(act) == \A t \in DOMAIN act : \A v \in Svars : act[t][v].finite

\* The tolerances of step t: assert_allclose(actual, desired, rtol, atol) is
\* called with 2e-5*t*2 third and 1e-5*t*2 fourth.
RtolUnitsSingle(t) == 1 * t
RtolUnits(t) == 2 * t * 2
AtolUnits(t) == 1 * t * 2

\* np.testing.assert_allclose: |actual - desired| <= atol + rtol * |desired|
\* for every element.
AllClose(act, des, rtol, atol) ==
    \A v \in Svars :
        Scale * Abs(act[v].v - des[v]) <= Scale * atol + rtol * Abs(des[v])

\* for t in range(1, len(actual))
FirstChecked == 1

ChkInit ==
    /\ kpc = "idle"
    /\ kexp = NoValue
    /\ kact = NoValue
    /\ kt = 0

\* A test calls _check_match(y, yh).
CheckCall ==
    /\ kpc = "idle"
    /\ \E base \in ExpectedBases,
          rel \in [Steps -> [Svars -> Relations]] :
          /\ kexp' = [t \in Steps |-> [v \in Svars |-> base]]
          /\ kact' = [t \in Steps |-> [v \in Svars |-> Actual(base, rel[t][v])]]
    /\ kpc' = "finite"
    /\ kt' = 0
    /\ UNCHANGED <<buildVars, cplVars, dfVars, trajVars, extVars>>

\* self.assertTrue(np.isfinite(actual).all())
CheckFinite ==
    /\ kpc = "finite"
    /\ IF AllFinite(kact)
       THEN kpc' = "loop" /\ kt' = FirstChecked
       ELSE kpc' = "rejected" /\ kt' = kt
    /\ UNCHANGED <<kexp, kact>>
    /\ UNCHANGED <<buildVars, cplVars, dfVars, trajVars, extVars>>

\* One pass of the loop body: assert_allclose at step kt.
CheckStep ==
    /\ kpc = "loop"
    /\ kt < MaxT
    /\ IF AllClose(kact[kt], kexp[kt], RtolUnits(kt), AtolUnits(kt))
       THEN kpc' = "loop" /\ kt' = kt + 1
       ELSE kpc' = "rejected" /\ kt' = kt
    /\ UNCHANGED <<kexp, kact>>
    /\ UNCHANGED <<buildVars, cplVars, dfVars, trajVars, extVars>>

\* The loop ran out: _check_match returns.
CheckReturn ==
    /\ kpc = "loop"
    /\ kt >= MaxT
    /\ kpc' = "accepted"
    /\ UNCHANGED <<kexp, kact, kt>>
    /\ UNCHANGED <<buildVars, cplVars, dfVars, trajVars, extVars>>

ChkNext ==
    \/ CheckCall
    \/ CheckFinite
    \/ CheckStep
    \/ CheckReturn

(***************************************************************************)
(* Numbers                                                                 *)
(***************************************************************************)
\* The values of parameters, states and drifts are exact fractions n / d in
\* lowest terms, d positive; d = 0 stands for a value that is not finite.
RECURSIVE GCD(_, _)
GCD(a, b) == IF b = 0 THEN a ELSE GCD(b, a % b)

Q(n, d) == [n |-> n \div GCD(Abs(n), d), d |-> d \div GCD(Abs(n), d)]
QInt(i) == [n |-> i, d |-> 1]
NotFinite == [n |-> 0, d |-> 0]

QAdd(x, y) == Q(x.n * y.d + y.n * x.d, x.d * y.d)
QSub(x, y) == Q(x.n * y.d - y.n * x.d, x.d * y.d)
QMul(x, y) == Q(x.n * y.n, x.d * y.d)

\* np.isfinite
QFinite(x) == x.d # 0

\* |actual - desired| <= atol + rtol * |desired|, the tolerances in units of
\* 1e-5.
QClose(act, des, rtol, atol) ==
    Abs(QSub(act, des).n) <=
        ((atol * des.d + rtol * Abs(des.n)) * QSub(act, des).d)
            \div (Scale * des.d)

(***************************************************************************)
(* Drift kernels (TestMako.test_mpr_dfun, TestDfuns)                       *)
(***************************************************************************)
\* The model descriptor: parameter names in order, each with a vector of
\* values of length 1 (homogeneous) or one per node (spatial).
ParameterNames == <<"Delta", "J", "eta", "cr", "cv">>

DefaultParams ==
    [Delta |-> <<QInt(1)>>, J |-> <<QInt(15)>>, eta |-> <<QInt(-5)>>,
     cr |-> <<QInt(1)>>, cv |-> <<QInt(0)>>]

\* np.r_[:0.1:128j]: as many values as nodes, evenly spaced from 0 to 0.1,
\* both ends included.
Ramp == [n \in Nodes |-> Q(n - 1, 10 * (NNode - 1))]

\* value * (1 - np.r_[:0.1:128j]): one value per node, the first node with
\* the homogeneous value, the last with nine tenths of it.
Spread(v) == [n \in Nodes |-> QMul(v[1], QSub(QInt(1), Ramp[n]))]

\* TestDfuns._prep_model(n_spatial): the parameters of the model when the
\* function ends.
PrepModel(k) ==
    [DefaultParams EXCEPT
        !.eta = IF k > 0 THEN Spread(DefaultParams.eta) ELSE @,
        !.J   = IF k > 1 THEN Spread(DefaultParams.J) ELSE @]

\* if n_spatial > 2: raise NotImplemented.  NotImplemented is no exception
\* class, and raising it is a TypeError.
PrepModelRaises(k) == k > 2
PrepModelError == "TypeError"

IsSpatial(P, p) == Len(P[p]) > 1

\* The rows of model.spatial_parameter_matrix: the spatial parameters, in the
\* order of the parameter names.
SpatialIdx(P) == {i \in 1..Len(ParameterNames) : IsSpatial(P, ParameterNames[i])}

RowOf(P, p) ==
    Cardinality({i \in SpatialIdx(P) :
                    i <= CHOOSE k \in 1..Len(ParameterNames) : ParameterNames[k] = p})

RECURSIVE RowsFrom(_, _)
RowsFrom(P, i) ==
    IF i > Len(ParameterNames) THEN <<>>
    ELSE (IF IsSpatial(P, ParameterNames[i]) THEN <<P[ParameterNames[i]]>> ELSE <<>>)
         \o RowsFrom(P, i + 1)

SpatialParameterMatrix(P) == RowsFrom(P, 1)

\* The drift expressions of the model over scalars (pi and tau taken as 1).
DriftR(e) == QAdd(e.Delta, QMul(QMul(QInt(2), e.V), e.r))
DriftV(e) ==
    QAdd(QAdd(QAdd(QAdd(QSub(QMul(e.V, e.V), QMul(e.r, e.r)), e.eta),
                   QMul(e.J, e.r)),
              QMul(e.cr, e.c_r)),
         QMul(e.cv, e.c_V))

\* The same expressions over whole arrays, elementwise, a scalar standing for
\* the array that repeats it.
Bc(s) == [n \in Nodes |-> s]
AAdd(x, y) == [n \in Nodes |-> QAdd(x[n], y[n])]
ASub(x, y) == [n \in Nodes |-> QSub(x[n], y[n])]
AMul(x, y) == [n \in Nodes |-> QMul(x[n], y[n])]

ArrDriftR(e) == AAdd(e.Delta, AMul(AMul(Bc(QInt(2)), e.V), e.r))
ArrDriftV(e) ==
    AAdd(AAdd(AAdd(AAdd(ASub(AMul(e.V, e.V), AMul(e.r, e.r)), e.eta),
                   AMul(e.J, e.r)),
              AMul(e.cr, e.c_r)),
         AMul(e.cv, e.c_V))

\* model.dfun(state, coupling): every parameter at its node's value.
ParamAtNode(P, p, n) == IF IsSpatial(P, p) THEN P[p][n] ELSE P[p][1]

NodeEnv(par, state, coup, n) ==
    [Delta |-> par["Delta"], J |-> par["J"], eta |-> par["eta"],
     cr |-> par["cr"], cv |-> par["cv"],
     r |-> state[1][n], V |-> state[2][n],
     c_r |-> coup[1][n], c_V |-> coup[2][n]]

BuiltinDfun(P, state, coup) ==
    LET env(n) == NodeEnv([p \in DOMAIN P |-> ParamAtNode(P, p, n)], state, coup, n)
    IN  <<[n \in Nodes |-> DriftR(env(n))], [n \in Nodes |-> DriftV(env(n))]>>

ArrEnv(par, state, coup) ==
    [Delta |-> par["Delta"], J |-> par["J"], eta |-> par["eta"],
     cr |-> par["cr"], cv |-> par["cv"],
     r |-> state[1], V |-> state[2],
     c_r |-> coup[1], c_V |-> coup[2]]

\* ---- the inline template of test_mpr_dfun:
\*   ${par} = ${getattr(model,par)[0]}  for every parameter
\*   r, V = state;  c_r, c_V = coupling
\*   dX[${loop.index}] = ${dfuns[svar]}  for every state variable
FlowParams(P) == [p \in DOMAIN P |-> Bc(P[p][1])]

FlowKernel(P, state, coup) ==
    <<ArrDriftR(ArrEnv(FlowParams(P), state, coup)),
      ArrDriftV(ArrEnv(FlowParams(P), state, coup))>>

\* ---- the kernels whose templates the tests include
\* np-dfuns: whole arrays; a spatial parameter is its row of parmat, any
\* other is written into the source as its value.
NpParams(P, parmat) ==
    [p \in DOMAIN P |->
        IF IsSpatial(P, p) THEN parmat[RowOf(P, p)] ELSE Bc(P[p][1])]

NpDfunsKernel(P, state, coup, parmat) ==
    <<ArrDriftR(ArrEnv(NpParams(P, parmat), state, coup)),
      ArrDriftV(ArrEnv(NpParams(P, parmat), state, coup))>>

\* the loop kernel: one node per pass of the loop.
LoopParams(P, parmat, n) ==
    [p \in DOMAIN P |->
        IF IsSpatial(P, p) THEN parmat[RowOf(P, p)][n] ELSE P[p][1]]

LoopNode(P, state, coup, parmat, n) ==
    LET e == NodeEnv(LoopParams(P, parmat, n), state, coup, n)
    IN  <<DriftR(e), DriftV(e)>>

\* cu-dfuns: thread n computes node n; parmat is a flat buffer, row after row.
CuParamsFromBuffer(P, buf, n) ==
    [p \in DOMAIN P |->
        IF p = "eta" THEN buf[1]
        ELSE IF IsSpatial(P, p) THEN buf[(RowOf(P, p) - 1) * NNode + n]
        ELSE P[p][1]]
CuParams(P, buf, n) ==
    [p \in DOMAIN P |->
        IF IsSpatial(P, p) THEN buf[(RowOf(P, p) - 1) * NNode + n] ELSE P[p][1]]

CuThreadDrift(P, state, coup, buf, n) ==
    LET e == NodeEnv(CuParams(P, buf, n), state, coup, n)
    IN  <<DriftR(e), DriftV(e)>>

RECURSIVE Flatten(_)
Flatten(rows) == IF rows = <<>> THEN <<>> ELSE Head(rows) \o Flatten(Tail(rows))

AsSeq(f) == [n \in 1..NNode |-> f[n]]

\* _test_cu_model: parmat = spatial_parameter_matrix; if parmat.size == 0:
\* parmat = np.zeros((1,), 'f')
DummyContents == {QInt(0), QInt(7)}

CuParmat(P, d) ==
    IF SpatialParameterMatrix(P) = <<>> THEN <<d>>
    ELSE Flatten([i \in 1..Len(SpatialParameterMatrix(P)) |->
                     AsSeq(SpatialParameterMatrix(P)[i])])

\* state, coupling as the tests draw them: r positive, V and the second
\* coupling term shifted down.
DStates == {<<r, V>> : r \in [Nodes -> {QInt(1), QInt(2)}],
                       V \in [Nodes -> {QInt(-1), QInt(1)}]}
DCoups  == {<<c, [n \in Nodes |-> QInt(-1)]>> :
               c \in [Nodes -> {QInt(0), QInt(1)}]}

NSpatials == {0, 1, 2, 3}

Unwritten == <<>>

\* The values of node n, one per state variable.
NodeDrift(d, n) == <<d[1][n], d[2][n]>>

DfInit ==
    /\ dpc = "idle"
    /\ dP = DefaultParams
    /\ dnsp = 0
    /\ dstate = NoValue
    /\ dcoup = NoValue
    /\ dcubuf = NoValue
    /\ dref = NoValue
    /\ dflow = NoValue
    /\ dnp = NoValue
    /\ dloop = [n \in Nodes |-> Unwritten]
    /\ dloopi = 1
    /\ dcu = [n \in Nodes |-> Unwritten]

\* A test prepares the model and draws state and coupling; the built-in dfun
\* gives the drift it compares with.  With more than two spatial parameters
\* _prep_model raises after it has changed eta and J, and the test ends.
DfunCall ==
    /\ dpc = "idle"
    /\ \E k \in NSpatials :
          /\ dnsp' = k
          /\ dP' = PrepModel(k)
          /\ IF PrepModelRaises(k)
             THEN /\ dpc' = PrepModelError
                  /\ UNCHANGED <<dstate, dcoup, dcubuf, dref>>
             ELSE /\ \E st \in DStates, cp \in DCoups, d \in DummyContents :
                        /\ dstate' = st
                        /\ dcoup' = cp
                        /\ dcubuf' = CuParmat(PrepModel(k), d)
                        /\ dref' = BuiltinDfun(PrepModel(k), st, cp)
                  /\ dpc' = "flow"
    /\ UNCHANGED <<dflow, dnp, dloop, dloopi, dcu>>
    /\ UNCHANGED <<buildVars, cplVars, chkVars, trajVars, extVars>>

\* test_mpr_dfun: the inline kernel, on the default model.
RunFlow ==
    /\ dpc = "flow"
    /\ dflow' = IF dnsp = 0 THEN FlowKernel(dP, dstate, dcoup) ELSE dflow
    /\ dpc' = "np"
    /\ UNCHANGED <<dP, dnsp, dstate, dcoup, dcubuf, dref, dnp, dloop, dloopi, dcu>>
    /\ UNCHANGED <<buildVars, cplVars, chkVars, trajVars, extVars>>

\* _test_py_model: kernel(dX, state, cX, parmat), parmat the spatial
\* parameter matrix as it is (empty for a homogeneous model).
RunNp ==
    /\ dpc = "np"
    /\ dnp' = NpDfunsKernel(dP, dstate, dcoup, SpatialParameterMatrix(dP))
    /\ dpc' = "loop"
    /\ UNCHANGED <<dP, dnsp, dstate, dcoup, dcubuf, dref, dflow, dloop, dloopi, dcu>>
    /\ UNCHANGED <<buildVars, cplVars, chkVars, trajVars, extVars>>

\* One pass of the loop kernel.
RunLoopNode ==
    /\ dpc = "loop"
    /\ dloopi <= NNode
    /\ dloop' = [dloop EXCEPT ![dloopi] =
                    LoopNode(dP, dstate, dcoup, SpatialParameterMatrix(dP), dloopi)]
    /\ dloopi' = dloopi + 1
    /\ UNCHANGED <<dpc, dP, dnsp, dstate, dcoup, dcubuf, dref, dflow, dnp, dcu>>
    /\ UNCHANGED <<buildVars, cplVars, chkVars, trajVars, extVars>>

LoopReturn ==
    /\ dpc = "loop"
    /\ dloopi > NNode
    /\ dpc' = "cu"
    /\ UNCHANGED <<dP, dnsp, dstate, dcoup, dcubuf, dref, dflow, dnp, dloop, dloopi, dcu>>
    /\ UNCHANGED <<buildVars, cplVars, chkVars, trajVars, extVars>>

\* _test_cu_model: block=(n_node,1,1); the threads run in any order.
CuThread ==
    /\ dpc = "cu"
    /\ \E n \in Nodes :
          /\ dcu[n] = Unwritten
          /\ dcu' = [dcu EXCEPT ![n] = CuThreadDrift(dP, dstate, dcoup, dcubuf, n)]
    /\ UNCHANGED <<dpc, dP, dnsp, dstate, dcoup, dcubuf, dref, dflow, dnp, dloop, dloopi>>
    /\ UNCHANGED <<buildVars, cplVars, chkVars, trajVars, extVars>>

CuReturn ==
    /\ dpc = "cu"
    /\ \A n \in Nodes : dcu[n] # Unwritten
    /\ dpc' = "done"
    /\ UNCHANGED <<dP, dnsp, dstate, dcoup, dcubuf, dref, dflow, dnp, dloop, dloopi, dcu>>
    /\ UNCHANGED <<buildVars, cplVars, chkVars, trajVars, extVars>>

DfNext ==
    \/ DfunCall
    \/ RunFlow
    \/ RunNp
    \/ RunLoopNode
    \/ LoopReturn
    \/ CuThread
    \/ CuReturn

(***************************************************************************)
(* Time stepping: the no-delay path and the delay-aware path               *)
(* (TestSimODE._create_sim)                                                *)
(***************************************************************************)
\* conn.speed: infinite (inf), or the finite speed v.
SpeedInf == [inf |-> TRUE, v |-> 0]

\* _create_sim: conn.speed = np.r_[np.inf]
ConnSpeed == SpeedInf

\* The tract lengths of the connectivity: none from a node to itself, longer
\* between nodes further apart.
TractLengths == [i \in Nodes |-> [j \in Nodes |-> 3 * Abs(i - j)]]

\* idelays = rint(tract_lengths / speed / dt), in steps (dt is one unit).
Idelays(L, speed) ==
    [i \in Nodes |-> [j \in Nodes |->
        IF speed.inf THEN 0 ELSE L[i][j] \div speed.v]]

MaxOf(S) == CHOOSE m \in S : \A x \in S : x <= m

\* The least number of slots the ring buffer of past states needs: one for
\* the current state and one for every step of the longest delay.
Horizon(D) == MaxOf({D[i][j] : i \in Nodes, j \in Nodes}) + 1

\* The number of slots of a ring buffer (slots 0 .. Depth - 1).
Depth(hist) == Cardinality(DOMAIN hist)

\* Weights without self-connections.
SimWeights == {W \in Matrices : \A i \in Nodes : W[i][i] = 0}

SimCfun == CfLinear

\* cfun.pre and cfun.post over fractions.
QPre(cf, x_i, x_j) == IF cf.pre = "x_j" THEN x_j ELSE QSub(x_j, x_i)

QPost(cf, gx) ==
    IF cf.post = "a * gx + b" THEN QAdd(QMul(QInt(cf.a), gx), QInt(cf.b))
    ELSE IF cf.post = "a * gx" THEN QMul(QInt(cf.a), gx)
    ELSE gx

RECURSIVE QSumTo(_, _)
QSumTo(f, n) == IF n = 0 THEN QInt(0) ELSE QAdd(QSumTo(f, n - 1), f[n])

\* No-delay path: the coupling of node i reads the current state of every j.
NoDelayCoupling(W, X) ==
    [v \in Svars |-> [i \in Nodes |->
        QPost(SimCfun, QSumTo([j \in Nodes |->
            QMul(QInt(W[i][j]), QPre(SimCfun, X[v][i], X[v][j]))], NNode))]]

\* A delayed read that is one slot late: the state of j is taken from the
\* slot before the one its delay names.
DelayCouplingStale(W, D, hist, cur, X) ==
    [v \in Svars |-> [i \in Nodes |->
        QPost(SimCfun, QSumTo([j \in Nodes |->
            QMul(QInt(W[i][j]),
                 QPre(SimCfun, X[v][i],
                      hist[(cur - D[i][j] - 1) % Depth(hist)][v][j]))], NNode))]]

\* Delay-aware path: the state of j is read from the ring buffer, D[i][j]
\* steps back from the slot of the current state.
DelayCoupling(W, D, hist, cur, X) ==
    [v \in Svars |-> [i \in Nodes |->
        QPost(SimCfun, QSumTo([j \in Nodes |->
            QMul(QInt(W[i][j]),
                 QPre(SimCfun, X[v][i],
                      hist[(cur - D[i][j]) % Depth(hist)][v][j]))], NNode))]]

\* One Euler step: X + dt * dX, the time counted in steps (dt one unit).
Euler(X, dX) == <<AAdd(X[1], dX[1]), AAdd(X[2], dX[2])>>

EulerStep(P, X, c) == Euler(X, BuiltinDfun(P, X, c))

\* The step of the generated no-delay kernel: the drift of the array
\* kernel, the spatial parameters read from parmat.
KernelStep(P, W, X) ==
    Euler(X, NpDfunsKernel(P, X, NoDelayCoupling(W, X),
                           SpatialParameterMatrix(P)))

\* np.random.randn(n): the draws the model takes.
Draws == {-1, 1}

\* dispersion = 1 + np.random.randn(n)*0.1
Dispersion(z) ==
    [n \in Nodes |-> QAdd(QInt(1), QMul(QInt(z[n]), Q(1, 10)))]

\* mpr = MontbrioPazoRoxin(), or MontbrioPazoRoxin(eta=mpr.eta*dispersion)
SimModel(inhom, z) ==
    IF inhom
    THEN [DefaultParams EXCEPT
            !.eta = [n \in Nodes |-> QMul(DefaultParams.eta[1], Dispersion(z)[n])]]
    ELSE DefaultParams

\* sim.run(): the steps of the delay-aware path, each storing the new state
\* in the next slot of the ring buffer; k steps are left to take.
RECURSIVE SimRun(_, _, _, _, _, _)
SimRun(P, W, D, hist, cur, k) ==
    IF k = 0 THEN [y |-> <<>>, hist |-> hist, cur |-> cur]
    ELSE LET X  == hist[cur % Depth(hist)]
             Xn == EulerStep(P, X, DelayCoupling(W, D, hist, cur, X))
             rest == SimRun(P, W, D,
                            [hist EXCEPT ![(cur + 1) % Depth(hist)] = Xn],
                            cur + 1, k - 1)
         IN  [rest EXCEPT !.y = <<Xn>> \o @]

SimStates == {<<r, V>> : r \in [Nodes -> {QInt(0), QInt(1)}],
                         V \in [Nodes -> {QInt(-1), QInt(0)}]}

TrajInit ==
    /\ tpc = "idle"
    /\ tP = NoValue
    /\ tW = NoValue
    /\ tD = NoValue
    /\ tX0 = NoValue
    /\ tnd = <<>>
    /\ tdl = <<>>
    /\ thist = NoValue
    /\ tcur = 0

Last(traj, X0) == IF traj = <<>> THEN X0 ELSE traj[Len(traj)]

\* _create_sim(inhom_mmpr): the model, the speed, configure (which fixes the
\* delays and fills a ring buffer of at least Horizon slots with the initial
\* state), the assertion that no edge has a delay, the initial state, and
\* sim.run(), which gives the reference trajectory.
CreateSim ==
    /\ tpc = "idle"
    /\ \E W \in SimWeights, X0 \in SimStates, inhom \in BOOLEAN :
       \E z \in IF inhom THEN [Nodes -> Draws] ELSE {[n \in Nodes |-> 0]} :
       \E slots \in Horizon(Idelays(TractLengths, ConnSpeed))..MaxDepth :
          LET D == Idelays(TractLengths, ConnSpeed)
              hist0 == [k \in 0..(slots - 1) |-> X0]
              run == SimRun(SimModel(inhom, z), W, D, hist0, 0, TrajSteps)
          IN  /\ tP' = SimModel(inhom, z)
              /\ tW' = W
              /\ tX0' = X0
              /\ tD' = D
              /\ IF \A i \in Nodes : \A j \in Nodes : D[i][j] = 0
                 THEN /\ tdl' = run.y
                      /\ thist' = run.hist
                      /\ tcur' = run.cur
                      /\ tpc' = "nodelay"
                 ELSE /\ tdl' = <<>>
                      /\ thist' = hist0
                      /\ tcur' = 0
                      /\ tpc' = "AssertionError"
    /\ UNCHANGED tnd
    /\ UNCHANGED <<buildVars, cplVars, chkVars, dfVars, extVars>>

\* One step of the generated no-delay kernel.
StepNoDelay ==
    /\ tpc = "nodelay"
    /\ Len(tnd) < TrajSteps
    /\ tnd' = Append(tnd, KernelStep(tP, tW, Last(tnd, tX0)))
    /\ UNCHANGED <<tpc, tP, tW, tD, tX0, tdl, thist, tcur>>
    /\ UNCHANGED <<buildVars, cplVars, chkVars, dfVars, extVars>>

\* The kernel returns its trajectory.
NoDelayReturn ==
    /\ tpc = "nodelay"
    /\ Len(tnd) >= TrajSteps
    /\ tpc' = "done"
    /\ UNCHANGED <<tP, tW, tD, tX0, tnd, tdl, thist, tcur>>
    /\ UNCHANGED <<buildVars, cplVars, chkVars, dfVars, extVars>>

TrajNext ==
    \/ CreateSim
    \/ StepNoDelay
    \/ NoDelayReturn

(***************************************************************************)
(* Parameters written into the source at build time                       *)
(* (the inline template of TestMako.test_mpr_dfun)                         *)
(***************************************************************************)
\* The parameters a caller changes, and the values it sets.
Changeable == {"eta", "J"}
NewValues  == {QInt(-3), QInt(2)}

\* The parameter values a call of the kernel computes with: the literals of
\* its source, whatever the model holds now.
KernelParamsLive(built, live) == live
KernelParams(built, live) == built

FrzInit ==
    /\ fmodel = DefaultParams
    /\ fkernel = NoValue
    /\ flast = "none"
    /\ fstate = NoValue
    /\ fcoup = NoValue
    /\ fout = NoValue
    /\ fops = 0

\* _build_py_func(template, content, 'flow'): ${getattr(model,par)[0]} is
\* evaluated while rendering, and the text of the value is in the source.
FreezeBuild ==
    /\ fops < MaxOps
    /\ fkernel' = fmodel
    /\ fops' = fops + 1
    /\ flast' = "build"
    /\ UNCHANGED <<fmodel, fstate, fcoup, fout>>
    /\ UNCHANGED <<coreVars, frzRest>>

\* The caller assigns a model parameter.
SetParameter ==
    /\ fops < MaxOps
    /\ \E p \in Changeable, v \in NewValues :
          fmodel' = [fmodel EXCEPT ![p] = <<v>>]
    /\ fops' = fops + 1
    /\ flast' = "set"
    /\ UNCHANGED <<fkernel, fstate, fcoup, fout>>
    /\ UNCHANGED <<coreVars, frzRest>>

\* cg_flow(state, coupling)
KernelCall ==
    /\ fops < MaxOps
    /\ fkernel # NoValue
    /\ \E st \in DStates, cp \in DCoups :
          /\ fstate' = st
          /\ fcoup' = cp
          /\ fout' = FlowKernel(KernelParams(fkernel, fmodel), st, cp)
    /\ flast' = "call"
    /\ fops' = fops + 1
    /\ UNCHANGED <<fmodel, fkernel>>
    /\ UNCHANGED <<coreVars, frzRest>>

FrzNext ==
    \/ FreezeBuild
    \/ SetParameter
    \/ KernelCall

(***************************************************************************)
(* One kernel invocation: steps in sequence, nodes in parallel             *)
(* (the network kernel TestSimODE.test_mpr_cu1 launches)                   *)
(***************************************************************************)
\* What memory that was never written may hold, and a state array of it.
Fills == {NotFinite, QInt(0)}
FillState(f) == <<[n \in Nodes |-> f], [n \in Nodes |-> f]>>

ParStates == {<<r, [n \in Nodes |-> QInt(-1)]>> :
                 r \in [Nodes -> {QInt(0), QInt(1)}]}

\* The trajectory computed one step after the other.
RECURSIVE SeqState(_, _, _)
SeqState(W, X0, t) ==
    IF t = 0 THEN X0
    ELSE EulerStep(DefaultParams, SeqState(W, X0, t - 1),
                   NoDelayCoupling(W, SeqState(W, X0, t - 1)))

\* The barriers of a step.  A worker reads once no worker is behind it; it
\* writes once every worker of its step has read.
NoBarrier(n) == TRUE
AllHaveWritten(n) == \A m \in Nodes : wt[m] >= wt[n]
AllHaveRead(n) ==
    \A m \in Nodes : wt[m] > wt[n] \/ (wt[m] = wt[n] /\ wph[m] = "write")

\* What worker n writes for its node from the state it read; the kernel
\* reads element (source, target) of the weight buffer for the edge into the
\* target node.
NodeStep(buf, seen, n) ==
    NodeDrift(EulerStep(DefaultParams, seen,
                        NoDelayCoupling(Transpose(buf), seen)), n)

SetNode(X, n, val) ==
    [v \in Svars |-> [X[v] EXCEPT ![n] = val[v]]]

ParInit ==
    /\ ppc = "idle"
    /\ pW = NoValue
    /\ pX0 = NoValue
    /\ pX = NoValue
    /\ wt = [n \in Nodes |-> 1]
    /\ wph = [n \in Nodes |-> "read"]
    /\ pseen = [n \in Nodes |-> NoValue]
    /\ pyh = NoValue

\* cu_loop(n_node, Out(dX), In(state), In(weights), Out(yh), block=...): the
\* weight buffer is the transpose of the simulator's weights; the device
\* buffer of an Out argument holds whatever its memory held.
Launch ==
    /\ ppc = "idle"
    /\ \E W \in SimWeights, X0 \in ParStates, f \in Fills :
          /\ pW' = MprCu1Weights(W)
          /\ pX0' = X0
          /\ pX' = X0
          /\ pyh' = [t \in 1..TrajSteps |-> [n \in Nodes |-> <<f, f>>]]
    /\ ppc' = "run"
    /\ UNCHANGED <<wt, wph, pseen>>
    /\ UNCHANGED <<coreVars, parRest>>

\* Worker n reads the state of every node for the coupling of its node.
WorkerRead ==
    /\ ppc = "run"
    /\ \E n \in Nodes :
          /\ wt[n] <= TrajSteps
          /\ wph[n] = "read"
          /\ AllHaveWritten(n)
          /\ pseen' = [pseen EXCEPT ![n] = pX]
          /\ wph' = [wph EXCEPT ![n] = "write"]
    /\ UNCHANGED <<ppc, pW, pX0, pX, wt, pyh>>
    /\ UNCHANGED <<coreVars, parRest>>

\* Worker n writes the new state of its node and its row of the trajectory.
WorkerWrite ==
    /\ ppc = "run"
    /\ \E n \in Nodes :
          /\ wph[n] = "write"
          /\ AllHaveRead(n)
          /\ pX' = SetNode(pX, n, NodeStep(pW, pseen[n], n))
          /\ pyh' = [pyh EXCEPT ![wt[n]][n] = NodeStep(pW, pseen[n], n)]
          /\ wt' = [wt EXCEPT ![n] = wt[n] + 1]
          /\ wph' = [wph EXCEPT ![n] = "read"]
    /\ UNCHANGED <<ppc, pW, pX0, pseen>>
    /\ UNCHANGED <<coreVars, parRest>>

\* Every worker has done every step: the call returns.
KernelReturn ==
    /\ ppc = "run"
    /\ \A n \in Nodes : wt[n] > TrajSteps
    /\ ppc' = "done"
    /\ UNCHANGED <<pW, pX0, pX, wt, wph, pseen, pyh>>
    /\ UNCHANGED <<coreVars, parRest>>

ParNext ==
    \/ Launch
    \/ WorkerRead
    \/ WorkerWrite
    \/ KernelReturn

(***************************************************************************)
(* Calls and the caller's buffers                                          *)
(* (TestPyCUDABasics.flow; the launch of TestSimODE.test_mpr_cu1)          *)
(***************************************************************************)
\* A value q / Unit + s * (sqrt_dt * 0.1): the second part is the share of
\* the noise, which no whole number of units equals.
Num(q, s) == [q |-> q, s |-> s]
Whole(i) == Num(Unit * i, 0)
WholeOf(v) == v.q \div Unit

WholeRows(X) == [v \in DOMAIN X |-> [n \in Nodes |-> Whole(X[v][n])]]

\* flow: x, y = X
\*   dX[0] = (x - x**3/3 + y)*3
\*   dX[1] = (1.01 - x) / 3
FlowDrift(X) ==
    <<[n \in Nodes |->
          LET x == WholeOf(X[1][n])
              y == WholeOf(X[2][n])
          IN  Whole(3 * x - x * x * x + 3 * y)],
      [n \in Nodes |->
          LET x == WholeOf(X[1][n])
          IN  Num((Unit \div 300) * (101 - 100 * x), 0)]>>

\* flow: X += dt * dX + sqrt_dt * 0.1 * Z, dt = 0.1
FlowStateKept(X, dX, Z) == X
FlowState(X, dX, Z) ==
    [v \in DOMAIN X |-> [n \in Nodes |->
        Num(X[v][n].q + dX[v][n].q \div 10, X[v][n].s + WholeOf(Z[v][n]))]]

FlowInputs ==
    {[dX |-> WholeRows(<<[n \in Nodes |-> 0], [n \in Nodes |-> 0]>>),
      X  |-> WholeRows(<<x, y>>),
      Z  |-> WholeRows(<<z, w>>)] :
        x \in [Nodes -> {0, 1}], y \in [Nodes -> {0, 1}],
        z \in [Nodes -> {-1, 1}], w \in [Nodes -> {-1, 1}]}

\* The transfer roles of a launch: In copies to the device before the
\* kernel runs, Out copies back after it; the device buffer of an Out
\* argument is allocated and not written before the kernel runs.
LaunchRoles == [dX |-> "Out", state |-> "In", weights |-> "In", yh |-> "Out"]

ToDevice(role, host, unwritten) == IF role = "In" THEN host ELSE unwritten
FromDevice(role, host, dev) == IF role = "Out" THEN dev ELSE host

\* What the network kernel leaves in its device buffers: the state advanced
\* step by step, the trajectory, the last drift.
TrajOf(W, X0) == [t \in 1..TrajSteps |-> SeqState(W, X0, t)]

LastDrift(W, X0) ==
    LET a == SeqState(W, X0, TrajSteps - 1)
        b == SeqState(W, X0, TrajSteps)
    IN  <<ASub(b[1], a[1]), ASub(b[2], a[2])>>

\* The kernel reads element (source, target) of the weight buffer for the
\* edge into the target node.
DeviceRun(dev) ==
    [dX      |-> LastDrift(Transpose(dev.weights), dev.state),
     state   |-> SeqState(Transpose(dev.weights), dev.state, TrajSteps),
     weights |-> dev.weights,
     yh      |-> TrajOf(Transpose(dev.weights), dev.state)]

\* y of _create_sim(): the trajectory of sim.run() on the default model.
Reference(W, X0) ==
    SimRun(DefaultParams, W, Idelays(TractLengths, ConnSpeed),
           [k \in 0..(Horizon(Idelays(TractLengths, ConnSpeed)) - 1) |-> X0],
           0, TrajSteps).y

\* np.empty((len(t),) + state.shape): the array holds whatever its memory
\* held: values that are not finite, zeros, the data of an earlier array
\* (the state, the trajectory itself).
YhContents(W, X0) ==
    {[t \in 1..TrajSteps |-> FillState(f)] : f \in Fills}
    \cup {[t \in 1..TrajSteps |-> X0], Reference(W, X0)}

\* sim, state, t, y = self._create_sim(); dX = state.copy();
\* weights = sim.connectivity.weights.T.copy(); yh = np.empty(...)
LaunchInputs ==
    UNION {{[y |-> Reference(W, X0), dX |-> X0, state |-> X0,
             weights |-> MprCu1Weights(W), yh |-> c] :
               c \in YhContents(W, X0)} :
           W \in SimWeights, X0 \in ParStates}

\* _check_match(expected, actual) as a whole: every value finite, and every
\* step from the second on close to the expected one, the tolerances those
\* of the step's index.
CheckMatch(expected, actual) ==
    /\ \A t \in DOMAIN actual : \A v \in Svars : \A n \in Nodes :
          QFinite(actual[t][v][n])
    /\ \A t \in (FirstChecked + 1)..Len(actual) :
          \A v \in Svars : \A n \in Nodes :
             QClose(actual[t][v][n], expected[t][v][n],
                    RtolUnits(t - 1), AtolUnits(t - 1))

FrmInit ==
    /\ gpc = "idle"
    /\ gkind = "none"
    /\ gbuf = NoValue
    /\ gbefore = NoValue
    /\ gdev = NoValue
    /\ gheld = {}

\* self.flow(dX, X, Z): the parameters are bound to the caller's arrays.
FlowCall ==
    /\ gpc = "idle"
    /\ \E b \in FlowInputs :
          /\ gbuf' = b
          /\ gbefore' = b
    /\ gkind' = "flow"
    /\ gheld' = {"dX", "X", "Z"}
    /\ gpc' = "flow"
    /\ UNCHANGED gdev
    /\ UNCHANGED <<coreVars, frmRest>>

\* The body of flow, to its end: the locals are gone with the frame.
FlowBody ==
    /\ gpc = "flow"
    /\ gbuf' = [gbuf EXCEPT
                   !.dX = FlowDrift(gbuf.X),
                   !.X  = FlowState(gbuf.X, FlowDrift(gbuf.X), gbuf.Z)]
    /\ gheld' = {}
    /\ gpc' = "returned"
    /\ UNCHANGED <<gkind, gbefore, gdev>>
    /\ UNCHANGED <<coreVars, frmRest>>

\* test_mpr_cu1 up to the launch: the buffers, then
\* with self.assertRaises(AssertionError): self._check_match(y, yh), which
\* ends the test when the unwritten yh passes for the trajectory.
PrepareBuffers ==
    /\ gpc = "idle"
    /\ \E b \in LaunchInputs :
          /\ gbuf' = b
          /\ gbefore' = b
          /\ gpc' = IF CheckMatch(b.y, b.yh)
                    THEN "AssertionError" ELSE "prepared"
    /\ gkind' = "device"
    /\ UNCHANGED <<gdev, gheld>>
    /\ UNCHANGED <<coreVars, frmRest>>

\* cu_loop(..., Out(dX), In(state), In(weights), Out(yh), ...): the
\* transfers to the device.
LaunchCall ==
    /\ gpc = "prepared"
    /\ \E f \in Fills :
          gdev' = [k \in DOMAIN LaunchRoles |->
                     ToDevice(LaunchRoles[k], gbuf[k],
                              IF k = "yh"
                              THEN [t \in 1..TrajSteps |-> FillState(f)]
                              ELSE FillState(f))]
    /\ gheld' = {"dX", "state", "weights", "yh"}
    /\ gpc' = "device"
    /\ UNCHANGED <<gkind, gbuf, gbefore>>
    /\ UNCHANGED <<coreVars, frmRest>>

\* The kernel runs on the device copies; the launch waits, copies back and
\* returns, and the test checks the trajectory: self._check_match(y, yh).
LaunchReturn ==
    /\ gpc = "device"
    /\ gdev' = DeviceRun(gdev)
    /\ gbuf' = [k \in DOMAIN gbuf |->
                  IF k \in DOMAIN LaunchRoles
                  THEN FromDevice(LaunchRoles[k], gbuf[k], DeviceRun(gdev)[k])
                  ELSE gbuf[k]]
    /\ gheld' = {}
    /\ gpc' = IF CheckMatch(gbuf.y, DeviceRun(gdev).yh)
              THEN "returned" ELSE "AssertionError"
    /\ UNCHANGED <<gkind, gbefore>>
    /\ UNCHANGED <<coreVars, frmRest>>

FrmNext ==
    \/ FlowCall
    \/ FlowBody
    \/ PrepareBuffers
    \/ LaunchCall
    \/ LaunchReturn

(***************************************************************************)
(* Cosimulation monitors (cosim_monitors.py)                               *)
(***************************************************************************)
\* The monitors of the file, and classes derived from them.
Provided == {"RawCosim", "RawVoiCosim", "RawDelayed", "RawVoiDelayed",
             "CosimCoupling"}
DerivedFrom == [MyRawCosim |-> "RawCosim", MyCosimCoupling |-> "CosimCoupling"]
Derived == DOMAIN DerivedFrom
Classes == Provided \cup Derived

\* The method resolution order of each class, up to the last class that
\* matters for sample and get_sample.
BaseMro(c) ==
    IF c = "Raw" THEN <<"Raw", "Monitor">>
    ELSE IF c = "RawVoi" THEN <<"RawVoi", "Raw", "Monitor">>
    ELSE <<"AfferentCoupling", "RawVoi", "Raw", "Monitor">>

ProvidedMro(c) ==
    IF c = "RawCosim" THEN <<c>> \o BaseMro("Raw") \o <<"CosimMonitor">>
    ELSE IF c = "RawVoiCosim" THEN <<c>> \o BaseMro("RawVoi") \o <<"CosimMonitor">>
    ELSE IF c = "RawDelayed" THEN <<c>> \o BaseMro("Raw") \o <<"CosimMonitor">>
    ELSE IF c = "RawVoiDelayed" THEN <<c>> \o BaseMro("RawVoi") \o <<"CosimMonitor">>
    ELSE <<c>> \o BaseMro("AfferentCoupling")
             \o <<"CosimMonitorFromCoupling", "CosimMonitor">>

Mro(c) ==
    IF c \in Derived THEN <<c>> \o ProvidedMro(DerivedFrom[c])
    ELSE ProvidedMro(c)

\* The classes that define sample, and with which parameters.
SingleStep == {"Raw", "RawVoi", "AfferentCoupling", "Monitor"}
Override   == Provided \cup {"CosimMonitor"}

DefinesSample(c) == c \in SingleStep \cup Override
DefinesGetSample(c) == c \in {"CosimMonitor", "CosimMonitorFromCoupling"}

FirstIn(mro, defines(_)) ==
    mro[CHOOSE i \in 1..Len(mro) :
            /\ defines(mro[i])
            /\ \A j \in 1..(i - 1) : ~defines(mro[j])]

\* self.sample and self.get_sample of an instance of c.
SampleOf(c) == FirstIn(Mro(c), DefinesSample)
GetSampleOf(c) == FirstIn(Mro(c), DefinesGetSample)

\* super(self.__class__, self).sample: the search starts after the class
\* of the instance.
SuperSample(c) == FirstIn(Tail(Mro(c)), DefinesSample)

\* The history each sample hands to get_sample, and the cosim flag.
Hist(name, at) == [name |-> name, at |-> at]

SampleHistoryOther(c, ch, h) ==
    IF c \in {"RawCosim", "RawVoiCosim"} THEN h ELSE ch
SampleHistory(c, ch, h) ==
    IF c \in {"RawCosim", "RawVoiCosim"} THEN ch ELSE h

SampleCosim(c) == c \in {"RawCosim", "RawVoiCosim"}

\* history.query(step): the state with what else the history keeps;
\* cosim_history.query(step): the state.
Query(hist, step) ==
    IF hist.name = "history" THEN <<hist.at[step], <<>>>> ELSE hist.at[step]

\* self.coupling(step, history): the coupling function over the history.
CouplingOf(hist, step) ==
    [i \in DOMAIN hist.at[step] |-> Post(SimCfun, hist.at[step][i])]

\* state[self.voi]: the first variable is the one of interest.
Voi(state) == <<state[1]>>

None == <<>>

\* sample(step, state) of the monitors of the library: Raw at every step,
\* the others at the steps of their period.
BaseSample(c, istep, step, state) ==
    IF c = "Raw" THEN <<step, state>>
    ELSE IF step % istep = 0 THEN <<step, Voi(state)>>
    ELSE None

\* get_sample: if tmp is not None: times.append(tmp[0]) ...
KeepAll(xs, tmp, k) == Append(xs, IF tmp = None THEN None ELSE tmp[k])
Keep(xs, tmp, k) == IF tmp = None THEN xs ELSE Append(xs, tmp[k])

MonStarts == {0, 1}
MonPeriods == {1, 2}
StepRange == 0..(1 + MaxSteps)

Histories(name, bases) ==
    {Hist(name, [t \in StepRange |-> <<b + t, b + t + 1>>]) : b \in bases}

MonInit ==
    /\ mpc = "idle"
    /\ mclass = "RawCosim"
    /\ mistep = 1
    /\ mstart = 0
    /\ mn = 0
    /\ mch = NoValue
    /\ mh = NoValue
    /\ mstep = 0
    /\ mtimes = <<>>
    /\ mvalues = <<>>
    /\ mlog = <<>>
    /\ mout = NoOutcome

\* monitor.sample(start_step, n_steps, cosim_history, history) enters
\* get_sample: times = [], values = [].
MonCall ==
    /\ mpc = "idle"
    /\ \E c \in Classes, p \in MonPeriods, s \in MonStarts, n \in 0..MaxSteps,
          ch \in Histories("cosim_history", {10, 20}),
          h \in Histories("history", {30, 40}) :
          /\ mclass' = c
          /\ mistep' = p
          /\ mstart' = s
          /\ mn' = n
          /\ mch' = ch
          /\ mh' = h
          /\ mstep' = s
    /\ mpc' = "loop"
    /\ UNCHANGED <<mtimes, mvalues, mlog, mout>>
    /\ UNCHANGED <<coreVars, monRest>>

\* One pass of the loop of get_sample.
MonStep ==
    /\ mpc = "loop"
    /\ mstep < mstart + mn
    /\ LET c      == SampleOf(mclass)
           hist   == SampleHistory(c, mch, mh)
           viaCpl == GetSampleOf(mclass) = "CosimMonitorFromCoupling"
           state  == IF viaCpl THEN CouplingOf(hist, mstep)
                     ELSE IF SampleCosim(c) THEN Query(hist, mstep)
                     ELSE Query(hist, mstep)[1]
           target == SuperSample(mclass)
           entry  == [src |-> hist.name, step |-> mstep, state |-> state,
                      via |-> IF viaCpl THEN "coupling" ELSE "query",
                      target |-> target]
       IN  /\ mlog' = Append(mlog, entry)
           /\ IF target \in SingleStep
              THEN LET tmp == BaseSample(target, mistep, mstep, state) IN
                   /\ mtimes' = Keep(mtimes, tmp, 1)
                   /\ mvalues' = Keep(mvalues, tmp, 2)
                   /\ mstep' = mstep + 1
                   /\ UNCHANGED <<mpc, mout>>
              ELSE /\ mout' = Raised("TypeError", "sample")
                   /\ mpc' = "done"
                   /\ UNCHANGED <<mtimes, mvalues, mstep>>
    /\ UNCHANGED <<mclass, mistep, mstart, mn, mch, mh>>
    /\ UNCHANGED <<coreVars, monRest>>

\* return [numpy.array(times), numpy.array(values)]
MonReturn ==
    /\ mpc = "loop"
    /\ mstep >= mstart + mn
    /\ mout' = [tag |-> "return", times |-> mtimes, values |-> mvalues]
    /\ mpc' = "done"
    /\ UNCHANGED <<mclass, mistep, mstart, mn, mch, mh, mstep, mtimes, mvalues, mlog>>
    /\ UNCHANGED <<coreVars, monRest>>

MonNext ==
    \/ MonCall
    \/ MonStep
    \/ MonReturn

Init ==
    /\ BuildInit
    /\ CplInit
    /\ ChkInit
    /\ DfInit
    /\ TrajInit
    /\ FrzInit
    /\ ParInit
    /\ FrmInit
    /\ MonInit

SpecBuild == Init /\ [][BuildNext]_vars

SpecCoupling == Init /\ [][CplNext]_vars

SpecCheck == Init /\ [][ChkNext]_vars

SpecDfun == Init /\ [][DfNext]_vars

SpecTraj == Init /\ [][TrajNext]_vars

SpecFreeze == Init /\ [][FrzNext]_vars

SpecParallel == Init /\ [][ParNext]_vars

SpecFrame == Init /\ [][FrmNext]_vars

SpecMonitor == Init /\ [][MonNext]_vars

(***************************************************************************)
(* Claims about the build call                                             *)
(***************************************************************************)
Malformed == Undefined(tmpl, content) # {}

Rendered == bpc \in {"print", "compile", "lookup", "done"}

NumberedOnly(p) == SelectSeq(p, LAMBDA e : e.what = "numbered")

\* C4: rendering a template that references a symbol absent from the content
\* mapping ends in an error raised to the caller; no source text comes back
\* (in particular none with the symbol replaced by empty text).
C4_UndefinedSymbolRaises ==
    (Rendered /\ Malformed) =>
        /\ bpc = "done"
        /\ outcome.tag = "raise"
        /\ outcome.stage = "render"
        /\ source = <<>>

C4_Witness ==
    /\ bpc = "done"
    /\ Malformed
    /\ outcome.tag = "raise"
    /\ Len(tmpl) = 2
    /\ tmpl[1][1] = "text"

\* The error kinds of the compilers: what the device compiler and the
\* compilation inside exec raise for source they reject.
CompileErrorKinds == {CuCompile(<<LSyntax>>).kind, PyExec(<<LSyntax>>).kind}

\* C5 as stated: a build given a template with an undefined symbol fails with
\* a template error that is no compile error, raised from rendering before
\* anything is compiled or executed, and the rendered source with line
\* numbers is among what was printed.
C5_AsStated ==
    (bpc = "done" /\ Malformed) =>
        /\ outcome.tag = "raise"
        /\ outcome.stage = "render"
        /\ outcome.kind \notin CompileErrorKinds
        /\ stages = <<"render">>
        /\ bound = {}
        /\ \E i \in 1..Len(printed) : printed[i].what = "numbered"

\* C5, what the builders do: the failure is the renderer's NameError, which
\* neither compiler raises, raised at the render stage before anything is
\* compiled, executed or bound; the one thing printed is the template
\* engine's report of that error, for one of the missing symbols; no
\* rendered source exists and none is printed, numbered or not.
C5_TemplateErrorReport ==
    (bpc = "done" /\ Malformed) =>
        /\ outcome = Raised("NameError", "render")
        /\ outcome.kind \notin CompileErrorKinds
        /\ stages = <<"render">>
        /\ bound = {}
        /\ source = <<>>
        /\ Len(printed) = 1
        /\ printed[1].what = "error_template"
        /\ printed[1].body \in UndefinedSymbols(tmpl, content)
        /\ NumberedOnly(printed) = <<>>

\* A host build asked to print its source fails on a template whose second
\* line names a symbol the content lacks.
C5_Witness ==
    /\ bpc = "done"
    /\ Malformed
    /\ backend = "py"
    /\ psrc
    /\ Len(tmpl) = 2
    /\ tmpl[1][1] = "text"
    /\ Len(printed) = 1

\* What makes a build fail: an undefined symbol, a line the compiler rejects
\* or that raises when run, or no definition of the entry point.
SourceOf(t, c) == RenderOk(t, c)

BuildFails ==
    \/ Malformed
    \/ \E i \in 1..Len(tmpl) :
          SourceOf(tmpl, content)[i] \in {LSyntax, LUndecl, LExit}
    \/ ename \notin DefinedUpTo(SourceOf(tmpl, content), Len(tmpl))

\* C6: a build call ends either returning the callable bound to the requested
\* entry-point name by its own backend's compilation of the whole rendered
\* source, or raising; a failure of rendering, compilation or lookup always
\* raises, whatever the compilation had bound before it failed.
C6_ReturnOrRaise ==
    bpc = "done" =>
        IF BuildFails
        THEN outcome.tag = "raise"
        ELSE outcome = Returned(Callable(backend, ename, SourceOf(tmpl, content)))

C6_Witness ==
    /\ bpc = "done"
    /\ backend = "py"
    /\ outcome.tag = "raise"
    /\ outcome.stage = "compile"
    /\ ename \in bound

\* The error kinds a failing host compilation (exec) raises.
HostCompileKinds ==
    {PyExec(<<l>>).kind : l \in {LSyntax, LUndecl, LExit}}

\* C7: when the device compiler rejects the rendered source, the GPU builder
\* has printed the line-numbered source exactly as the host builder does
\* when exec raises an Exception (once, for either value of print_source),
\* and it raises CompileError, which no failing host compilation raises.
C7_DeviceCompileFailure ==
    (bpc = "done" /\ backend = "cu" /\ outcome.tag = "raise"
                  /\ outcome.stage = "compile") =>
        /\ outcome.kind = "CompileError"
        /\ outcome.kind \notin HostCompileKinds
        /\ NumberedOnly(printed) = <<PrintNumbered(source)>>
        /\ NumberedOnly(printed) =
             NumberedOnly(PyPrintBefore(psrc, source) \o PyPrintOnFail(psrc, source))
        /\ printed[Len(printed)] = PrintNumbered(source)

C7_Witness ==
    /\ bpc = "done"
    /\ backend = "cu"
    /\ outcome.tag = "raise"
    /\ outcome.stage = "compile"
    /\ psrc
    /\ Len(source) = 2

(***************************************************************************)
(* Claims about the coupling                                               *)
(***************************************************************************)
\* C2 as stated: the generated coupling of a target node is post of the sum
\* over source nodes of weight[source, target] * pre(state[source],
\* state[target]), weight being the buffer handed to the kernel (all ones
\* for the inline kernel, which takes no weights).
C2_AsStated ==
    cpc = "done" =>
        /\ ccall = "sigmoidal_cfun" =>
             \A t \in Nodes :
                cgOut[t] = Post(cfun, SumTo([s \in Nodes |->
                                Pre(cfun, cX[s], cX[t])], NNode))
        /\ ccall \in CouplingCalls =>
             \A v \in Svars, t \in Nodes :
                cexp[v][t] = Post(cfun, SumTo([s \in Nodes |->
                                wbuf[s][t] * Pre(cfun, cX[v][s], cX[v][t])], NNode))

\* C2 as amended: the coupling of a target node is post, applied once, of the
\* sum over source nodes of W[source, target] * pre(state[target],
\* state[source]): the first argument of pre is the target state, the second
\* the source state, and W is the matrix the reference is given; the Python
\* kernels are handed its transpose (buffer[target, source]), the GPU
\* coupling kernel W itself.  The inline kernel agrees with its reference.
C2_CouplingSum ==
    cpc = "done" =>
        /\ ccall = "sigmoidal_cfun" =>
             /\ cgOut = cexp
             /\ \A t \in Nodes :
                  cgOut[t] = Post(cfun, SumTo([s \in Nodes |->
                                  Pre(cfun, cX[t], cX[s])], NNode))
        /\ ccall \in CouplingCalls =>
             \A v \in Svars, t \in Nodes :
                /\ cexp[v][t] = Post(cfun, SumTo([s \in Nodes |->
                                  cW[s][t] * Pre(cfun, cX[v][t], cX[v][s])], NNode))
                /\ \A s \in Nodes :
                     cW[s][t] = IF ccall = "cu_cfun" THEN wbuf[s][t] ELSE wbuf[t][s]

C2_Witness ==
    /\ cpc = "done"
    /\ ccall = "py_cfun_np"
    /\ cfun = CfDifference
    /\ cW # Transpose(cW)
    /\ \E v \in Svars : cX[v][1] # cX[v][2]
    /\ \E v \in Svars : cexp[v][1] # cexp[v][2]

\* C3 as stated: the weight buffer handed to a kernel is the transpose of the
\* stored weights, whichever backend and kernel.
C3_AsStated ==
    (cpc = "done" /\ ccall \in CouplingCalls \cup SimCalls) =>
        wbuf = Transpose(cW)

\* C3 as amended: the buffer is the transpose of the stored weights for the
\* GPU full-simulation kernels and for the Python (np, nb) coupling kernels;
\* the GPU coupling kernel and the NumPy full-simulation kernel are handed the
\* stored matrix as it is.
C3_WeightOrientation ==
    cpc = "done" =>
        /\ ccall \in {"py_cfun_np", "py_cfun_nb", "mpr_cu1", "mpr_cu2"} =>
             \A a \in Nodes, b \in Nodes : wbuf[a][b] = cW[b][a]
        /\ ccall \in {"cu_cfun", "np_mpr"} =>
             \A a \in Nodes, b \in Nodes : wbuf[a][b] = cW[a][b]

C3_Witness ==
    /\ cpc = "done"
    /\ ccall = "np_mpr"
    /\ cW[1][2] # cW[2][1]
    /\ wbuf = cW

(***************************************************************************)
(* Claims about the trajectory check                                       *)
(***************************************************************************)
\* C9 as stated: a trajectory is accepted only if at every step t, the first
\* included, it is within 2e-5*t (absolute) plus 1e-5*t (relative) of the
\* expected one.
C9_AsStated ==
    kpc = "accepted" =>
        \A t \in Steps :
            /\ \A v \in Svars : kact[t][v].finite
            /\ AllClose(kact[t], kexp[t], RtolUnitsSingle(t), AtolUnits(t))

\* What _check_match compares: every value finite, and every step from the
\* second on within 2e-5*t (absolute) plus 4e-5*t (relative).
Matches ==
    /\ \A t \in Steps : \A v \in Svars : kact[t][v].finite
    /\ \A t \in Steps \ {0} : \A v \in Svars :
          Scale * Abs(kact[t][v].v - kexp[t][v])
              <= Scale * 2 * t + 4 * t * Abs(kexp[t][v])

\* C9 as amended: the check accepts a trajectory exactly when all its values
\* are finite and every step t >= 1 is within absolute tolerance 2e-5*t and
\* relative tolerance 4e-5*t of the expected one; step 0 is not compared.
C9_CheckMatch ==
    /\ kpc = "accepted" => Matches
    /\ kpc = "rejected" => ~Matches

C9_Witness ==
    /\ kpc = "accepted"
    /\ kexp[0][1] = Scale
    /\ kact[0][1].v # kexp[0][1]
    /\ kact[1][1].v = kexp[1][1] + 5
    /\ ~AllClose(kact[1], kexp[1], RtolUnitsSingle(1), AtolUnits(1))


(***************************************************************************)
(* Drift kernels                                                           *)
(***************************************************************************)
\* C10: for a homogeneous model (no spatial parameter) the drift of a kernel
\* is the same whatever the spatial-parameter buffer holds: the one-element
\* dummy buffer with any content, and the empty buffer, give the drift the
\* device kernel wrote, which is the drift of the array kernel on the empty
\* matrix.
C10_BufferIrrelevant ==
    (dnsp = 0 /\ dpc = "done") =>
        /\ SpatialParameterMatrix(dP) = <<>>
        /\ \A d \in DummyContents : \A n \in Nodes :
              CuThreadDrift(dP, dstate, dcoup, <<d>>, n) = dcu[n]
        /\ \A n \in Nodes :
              /\ CuThreadDrift(dP, dstate, dcoup, <<>>, n) = dcu[n]
              /\ LoopNode(dP, dstate, dcoup, <<>>, n) = dcu[n]
              /\ NodeDrift(dnp, n) = dcu[n]
        /\ dnp = NpDfunsKernel(dP, dstate, dcoup, <<>>)

\* A homogeneous model has run on the device with a dummy buffer whose
\* content is not zero.
C10_Witness ==
    /\ dnsp = 0
    /\ dpc = "done"
    /\ Len(dcubuf) = 1
    /\ dcubuf[1] # QInt(0)
    /\ dnp # NoValue

NumberedCount ==
    Cardinality({i \in DOMAIN printed : printed[i] = PrintNumbered(source)})

\* C14 as stated: when _build_py_func ends because executing the rendered
\* source failed, the line-numbered source has been printed exactly once,
\* whether print_source is true or false; when it returns the callable, the
\* line-numbered source has been printed once if print_source is true and
\* not at all otherwise.
C14_AsStated ==
    (bpc = "done" /\ backend = "py") =>
        /\ (outcome.tag = "raise" /\ outcome.stage = "compile")
              => NumberedCount = 1
        /\ outcome.tag = "return"
              => NumberedCount = (IF psrc THEN 1 ELSE 0)

\* C14: when exec raises an Exception, the line-numbered source has been
\* printed exactly once, whether print_source is true or false; when exec
\* raises a BaseException that is no Exception (SystemExit), and when the
\* build returns the callable, the line-numbered source has been printed
\* once if print_source is true and not at all otherwise.
C14_NumberedOnce ==
    (bpc = "done" /\ backend = "py") =>
        /\ (outcome.tag = "raise" /\ outcome.stage = "compile")
              => NumberedCount =
                    (IF IsException(outcome.kind) \/ psrc
                     THEN 1 ELSE 0)
        /\ outcome.tag = "return"
              => NumberedCount = (IF psrc THEN 1 ELSE 0)

\* The host builder failed in exec with an Exception, print_source false,
\* and the except clause's print is the only print.
C14_Witness ==
    /\ bpc = "done"
    /\ backend = "py"
    /\ ~psrc
    /\ outcome = Raised("NameError", "compile")
    /\ printed = <<PrintNumbered(source)>>

(***************************************************************************)
(* Build-time parameters                                                   *)
(***************************************************************************)
\* C11: in any sequence of builds, parameter changes and kernel calls, every
\* call computes the drift with the parameter values the model had when the
\* kernel was last built, whatever the model holds at the call; and the
\* values the kernel holds change only in a build, to the model's values.
C11_BuildTimeParameters ==
    [][/\ flast' = "call" => fout' = FlowKernel(fkernel, fstate', fcoup')
       /\ fkernel' # fkernel => flast' = "build" /\ fkernel' = fmodel]_vars

\* The kernel was built, a parameter was changed afterwards, and the call
\* just made returned a drift that the changed value would not give.
C11_Witness ==
    /\ flast = "call"
    /\ fmodel # fkernel
    /\ fout # FlowKernel(fmodel, fstate, fcoup)

(***************************************************************************)
(* Steps in sequence, nodes in parallel                                    *)
(***************************************************************************)
\* C12: under every interleaving of the workers of one invocation, the
\* state a worker has read for the coupling of step t is the state of all
\* nodes at the end of step t-1, with no step-t write of another node in
\* it; a worker that has read for its step has no worker behind it, so no
\* step starts before every node has finished the step before; and the
\* trajectory written is the one of the steps taken in sequence.
C12_StepsInSequence ==
    ppc # "idle" =>
        /\ \A n \in Nodes :
              wph[n] = "write" =>
                 /\ pseen[n] = SeqState(Transpose(pW), pX0, wt[n] - 1)
                 /\ \A m \in Nodes : wt[m] >= wt[n]
        /\ \A t \in 1..TrajSteps : \A n \in Nodes :
              wt[n] > t =>
                 pyh[t][n] = NodeDrift(SeqState(Transpose(pW), pX0, t), n)

\* In the last step one worker has written its node while another, which
\* read before that write, has not yet written; the weight buffer holds the
\* edge into the reading node and not the one back, and the write changed
\* the state.
C12_Witness ==
    /\ ppc = "run"
    /\ \E n \in Nodes : \E m \in Nodes :
          /\ n # m
          /\ pW[m][n] # 0
          /\ pW[n][m] = 0
          /\ wt[n] = TrajSteps
          /\ wph[n] = "write"
          /\ wt[m] = TrajSteps + 1
          /\ pseen[n] # pX

(***************************************************************************)
(* What a call changes                                                     *)
(***************************************************************************)
\* C13 as stated: after a call the state buffer, the coupling or noise
\* input, the weight buffer hold what they held before it.
C13_AsStated ==
    gpc = "returned" =>
        \A k \in DOMAIN gbuf \ {"dX", "yh"} : gbuf[k] = gbefore[k]

\* C13: flow writes the drift into dX and advances the state buffer X in
\* place by dt * dX and the noise, and leaves Z as it was; a launch leaves
\* the buffers handed over as In (state, weights) as they were and
\* overwrites those handed over as Out (dX, yh); after either returns the
\* callee has no reference to a buffer left.
C13_FrameEffect ==
    gpc = "returned" =>
        /\ gheld = {}
        /\ gkind = "flow" =>
              /\ gbuf.Z = gbefore.Z
              /\ gbuf.dX = FlowDrift(gbefore.X)
              /\ \A v \in DOMAIN gbuf.X : \A n \in Nodes :
                    /\ gbuf.X[v][n].q =
                          gbefore.X[v][n].q + FlowDrift(gbefore.X)[v][n].q \div 10
                    /\ gbuf.X[v][n].s = WholeOf(gbefore.Z[v][n])
              /\ gbuf.X # gbefore.X
        /\ gkind = "device" =>
              /\ gbuf.state = gbefore.state
              /\ gbuf.weights = gbefore.weights
              /\ gbuf.y = gbefore.y
              /\ gbuf.dX = LastDrift(Transpose(gbefore.weights), gbefore.state)
              /\ gbuf.yh = TrajOf(Transpose(gbefore.weights), gbefore.state)

\* flow has returned from a state whose first drift is zero: the state
\* buffer still moved, by the noise.
C13_Witness ==
    /\ gpc = "returned"
    /\ gkind = "flow"
    /\ \E n \in Nodes : gbuf.dX[1][n] = Whole(0)
    /\ gbuf.X # gbefore.X
    /\ gbuf.dX # gbefore.dX

(***************************************************************************)
(* Cosimulation monitors                                                   *)
(***************************************************************************)
\* The provided monitor a class is, or is derived from.
ProvidedOf(c) == IF c \in Derived THEN DerivedFrom[c] ELSE c

\* C15: every pass of the loop reads one history only, the one of the
\* monitor: RawCosim and RawVoiCosim read cosim_history and pass on the
\* whole value of the query; RawDelayed and RawVoiDelayed read history and
\* pass on element 0 of the value of the query; CosimCoupling reads history
\* through its coupling function.
C15_OneSource ==
    \A i \in DOMAIN mlog :
        LET e == mlog[i]
            c == ProvidedOf(mclass)
        IN  /\ c \in {"RawCosim", "RawVoiCosim"} =>
                  /\ e.src = "cosim_history"
                  /\ e.via = "query"
                  /\ e.state = mch.at[e.step]
            /\ c \in {"RawDelayed", "RawVoiDelayed"} =>
                  /\ e.src = "history"
                  /\ e.via = "query"
                  /\ e.state = mh.at[e.step]
            /\ c = "CosimCoupling" =>
                  /\ e.src = "history"
                  /\ e.via = "coupling"
                  /\ e.state = CouplingOf(mh, e.step)

\* A RawDelayed monitor has sampled every step asked for and returned.
C15_Witness ==
    /\ mpc = "done"
    /\ mclass = "RawDelayed"
    /\ mn = MaxSteps
    /\ Len(mlog) = MaxSteps
    /\ mout.tag = "return"
    /\ mlog[1].state = mh.at[mstart]

\* The result of the single-step sampler at each step asked for, and those
\* of them that are not None.
TmpAt(i) ==
    BaseSample(SuperSample(mclass), mistep, mstart + i - 1, mlog[i].state)

NotNone(tmp) == tmp # None

Sampled == SelectSeq([i \in 1..Len(mlog) |-> TmpAt(i)], NotNone)

\* C16: get_sample reads the history once for each step start_step,
\* start_step + 1, ... in increasing order, never more than n_steps times;
\* when it returns it has read every step up to start_step + n_steps - 1,
\* times and values have the same length, at most n_steps, and hold in
\* step order the times and the values of the steps whose single-step
\* sample was not None; for n_steps = 0 both are empty and nothing was read.
C16_GetSample ==
    /\ Len(mlog) <= mn
    /\ \A i \in DOMAIN mlog : mlog[i].step = mstart + i - 1
    /\ mout.tag = "return" =>
          /\ Len(mlog) = mn
          /\ Len(mout.times) = Len(mout.values)
          /\ Len(mout.times) <= mn
          /\ mout.times = [i \in 1..Len(Sampled) |-> Sampled[i][1]]
          /\ mout.values = [i \in 1..Len(Sampled) |-> Sampled[i][2]]
          /\ mn = 0 => mout.times = <<>> /\ mout.values = <<>> /\ mlog = <<>>

\* get_sample returned after every step asked for, and the sampler gave
\* None at some step and a sample at another.
C16_Witness ==
    /\ mpc = "done"
    /\ mout.tag = "return"
    /\ mn = MaxSteps
    /\ Len(mout.times) > 0
    /\ Len(mout.times) < mn

\* C17 as stated: for every class, one derived from a provided monitor
\* included, the call made in the loop reaches sample(step, state) of Raw,
\* RawVoi or AfferentCoupling, and get_sample ends with a result.
C17_AsStated ==
    /\ \A i \in DOMAIN mlog :
          mlog[i].target \in {"Raw", "RawVoi", "AfferentCoupling"}
    /\ mpc = "done" => mout.tag = "return"

\* C17 for the classes of the file and those derived from them: a provided
\* monitor reaches the single-step sample of its base monitor and
\* get_sample returns; in a class derived from one, the call reaches the
\* override of the provided monitor, which takes four arguments, and
\* get_sample ends in a TypeError at its first step.
C17_Dispatch ==
    /\ \A i \in DOMAIN mlog :
          /\ mclass \in Provided =>
                mlog[i].target \in {"Raw", "RawVoi", "AfferentCoupling"}
          /\ mclass \in Derived => mlog[i].target = DerivedFrom[mclass]
    /\ mpc = "done" =>
          IF mclass \in Derived /\ mn > 0
          THEN mout = Raised("TypeError", "sample") /\ Len(mlog) = 1
          ELSE mout.tag = "return"

\* A monitor derived from RawCosim was asked for a step and the call ended
\* in the TypeError.
C17_Witness ==
    /\ mpc = "done"
    /\ mclass = "MyRawCosim"
    /\ mn > 0
    /\ mout.tag = "raise"

====
